---- MODULE Spec2Model ----
(***************************************************************************)
(* The busy guard of the Plex music downloader plugin.                     *)
(*                                                                         *)
(* ComponentOperation keeps a process-wide Set of key strings              *)
(* (BUSY_PLUGIN_INTERACTIONS).  Four handlers of the plugin consult it:    *)
(* showMetadataModal, showDeletionModal, downloadLinkAndExecute and        *)
(* deleteLinkFromPlex.  The handlers are async functions on Node's         *)
(* single-threaded event loop: a handler runs without interruption from a  *)
(* resumption to its next await, and other handlers run only while it is   *)
(* suspended at an await.  Each action below is one such synchronous       *)
(* segment of one handler; the outcome of the awaited call (it resolves,   *)
(* it rejects, what it returns) is an input of the segment that resumes.   *)
(***************************************************************************)
EXTENDS Naturals, Sequences, FiniteSets

\* ------------------------------------------------------------------------
\* Bounds and input sets
\* ------------------------------------------------------------------------

\* Interactions that arrive in one run.
NumInteractions == 2

\* The number of calls of getOrInitializeLinkData in one run.
NumLookups == 3

\* Calls made on one ComponentOperation object by a direct caller of the class.
MaxCalls == 3

\* The number of calls of validateMessageWithPlexButton in one run.
NumValidations == 2

\* The most messages the cat facts channel holds in one run.
MaxChannelMessages == 5

Slots == 1..NumInteractions

\* Discord message ids and user ids are strings of digits of varying length.
MessageIds == {"1", "12"}

UserIds == {"3", "23"}

\* The (message, user) pairs of the interactions that arrive: two different
\* presses, by different users on different messages.
Subjects == {<<"1", "23">>, <<"12", "3">>}

\* ------------------------------------------------------------------------
\* COMPONENT_CUSTOM_IDS and COMPONENT_INTERACTIONS
\* ------------------------------------------------------------------------

DELETE_FROM_PLEX_MODAL == "DELETE_FROM_PLEX_MODAL"

DOWNLOAD_MP3_MODAL == "DOWNLOAD_MP3_MODAL"

IMPORT_INTO_PLEX_MODAL == "IMPORT_INTO_PLEX_MODAL"

ModalCustomIds == {DELETE_FROM_PLEX_MODAL, DOWNLOAD_MP3_MODAL, IMPORT_INTO_PLEX_MODAL}

\* The handler each component runs and the modal custom id it is called with
\* (the interactionId of the ComponentOperation the handler builds).
COMPONENT_INTERACTIONS ==
  { [fn |-> "showMetadataModal",      interactionId |-> DOWNLOAD_MP3_MODAL],
    [fn |-> "downloadLinkAndExecute", interactionId |-> DOWNLOAD_MP3_MODAL],
    [fn |-> "showMetadataModal",      interactionId |-> IMPORT_INTO_PLEX_MODAL],
    [fn |-> "downloadLinkAndExecute", interactionId |-> IMPORT_INTO_PLEX_MODAL],
    [fn |-> "showDeletionModal",      interactionId |-> DELETE_FROM_PLEX_MODAL],
    [fn |-> "deleteLinkFromPlex",     interactionId |-> DELETE_FROM_PLEX_MODAL] }

\* ------------------------------------------------------------------------
\* ComponentOperation
\* ------------------------------------------------------------------------

\* constructor({ interactionId, messageId, userId })
ComponentOperation(interactionId, messageId, userId) ==
  [interactionId |-> interactionId, messageId |-> messageId, userId |-> userId]

Triples ==
  { ComponentOperation(c, m, u) : c \in ModalCustomIds, m \in MessageIds, u \in UserIds }

\* toString(): the three fields concatenated, with no separator.
ToString(op) == op.interactionId \o op.messageId \o op.userId

\* get isBusy(): BUSY_PLUGIN_INTERACTIONS.has(`${this}`)
IsBusy(op, registry) == ToString(op) \in registry

\* setBusy with the test of its first branch inverted (`this.isBusy && add`):
\* a key is never added.
SetBusyAddInverted(op, bool, registry) ==
  IF bool
    THEN IF IsBusy(op, registry) THEN registry \cup {ToString(op)} ELSE registry
    ELSE IF IsBusy(op, registry) THEN registry \ {ToString(op)} ELSE registry

\* setBusy with the test of its second branch inverted (`!this.isBusy && delete`):
\* a key is never deleted.
SetBusyDeleteInverted(op, bool, registry) ==
  IF bool
    THEN IF ~IsBusy(op, registry) THEN registry \cup {ToString(op)} ELSE registry
    ELSE IF ~IsBusy(op, registry) THEN registry \ {ToString(op)} ELSE registry

\* setBusy(bool), as a function of the registry before the call.
SetBusy(op, bool, registry) ==
  IF bool
    THEN IF ~IsBusy(op, registry) THEN registry \cup {ToString(op)} ELSE registry
    ELSE IF IsBusy(op, registry) THEN registry \ {ToString(op)} ELSE registry

\* ------------------------------------------------------------------------
\* State
\* ------------------------------------------------------------------------

VARIABLES
  BUSY_PLUGIN_INTERACTIONS,  \* the Set of busy key strings
  inv,                       \* inv[i]: the i-th interaction and its handler invocation
  caller,                    \* a direct caller of ComponentOperation: its object and calls
  pendingInteractions,       \* the legacy plugin's Set of customId + user id strings
  legacy,                    \* legacy[i]: the i-th interaction of the legacy plugin
  cron,                      \* a CronJobScheduler and the last setter called on it
  dl,                        \* one run of downloadLinkAndExecute's validation and download
  thread,                    \* one call of getThreadChannelName
  CACHED_LINK_DATA,          \* the LinkData object cached for each parameter-stripped link
  lookups,                   \* lookups[i]: the i-th call of getOrInitializeLinkData
  plex,                      \* the Plex download directory and the calls of validateMessageWithPlexButton
  cat                        \* the cat facts channel and the run of the cat facts cron job

\* The state of the guard and of the handlers that use it.
guardVars == <<BUSY_PLUGIN_INTERACTIONS, inv, caller>>

\* The state of the legacy plugin.
legacyVars == <<pendingInteractions, legacy>>

\* The state of the link cache and of the calls that fill it.
cacheVars == <<CACHED_LINK_DATA, lookups>>

\* The state of the other parts of the bot, which the guard and its handlers
\* leave alone.
others == <<legacyVars, cron, dl, thread, cacheVars, plex, cat>>

\* What the legacy plugin leaves alone.
outsideLegacy == <<guardVars, cron, dl, thread, cacheVars, plex, cat>>

\* What a CronJobScheduler leaves alone.
outsideCron == <<guardVars, legacyVars, dl, thread, cacheVars, plex, cat>>

\* What the validation and download of downloadLinkAndExecute leave alone.
outsideDownload == <<guardVars, legacyVars, cron, thread, cacheVars, plex, cat>>

\* What getThreadChannelName leaves alone.
outsideThread == <<guardVars, legacyVars, cron, dl, cacheVars, plex, cat>>

\* What getOrInitializeLinkData leaves alone.
outsideCache == <<guardVars, legacyVars, cron, dl, thread, plex, cat>>

\* What validateMessageWithPlexButton and the import flow's file move leave
\* alone.
outsidePlex == <<guardVars, legacyVars, cron, dl, thread, cacheVars, cat>>

\* What the cat facts cron job leaves alone.
outsideCat == <<guardVars, legacyVars, cron, dl, thread, cacheVars, plex>>

vars == <<BUSY_PLUGIN_INTERACTIONS, inv, caller, others>>

\* No interaction in the slot yet.
NoInteraction ==
  [fn |-> "none", interactionId |-> "", messageId |-> "", userId |-> "",
   pc |-> "idle", ack |-> "none", declined |-> FALSE, exc |-> FALSE]

\* A direct caller that has constructed no object yet.
NoCaller == [constructed |-> FALSE, op |-> ComponentOperation("", "", ""), calls |-> <<>>]

\* No legacy interaction in the slot yet.
NoLegacyInteraction ==
  [customId |-> "", userId |-> "", roles |-> {}, pc |-> "idle", starter |-> "none",
   ran |-> "none", reply |-> "none", effects |-> {}, exc |-> FALSE]

\* The links passed to getOrInitializeLinkData, each held as the part that
\* /(https?:\/\/[^&\s]+)/ matches and the rest of the link after it.
CacheLinks ==
  {<<"https://youtu.be/a", "">>, <<"https://youtu.be/a", "&t=10">>, <<"https://youtu.be/b", "">>}

\* No call in the slot yet.  returned is the LinkData object a finished call
\* returned (the object created by the i-th call is i; 0 is undefined), known the
\* objects that finished calls had returned for its stripped link when it began.
\* authorName, title, endTime and id are the values the call has fetched, which
\* are the fields of the LinkData object it creates.
NoLookup ==
  [link |-> <<"", "">>, pc |-> "idle", returned |-> 0, outbound |-> {}, known |-> {},
   authorName |-> "undefined", title |-> "undefined", endTime |-> "undefined",
   id |-> "undefined"]

\* A JavaScript value: the name of its type (as typeof or its constructor names
\* it) and its text.
JsValue(type, val) == [type |-> type, val |-> val]

\* The property initializers of CronJobScheduler.
NewCronJobScheduler ==
  [date |-> JsValue("null", "null"),
   isEnabled |-> JsValue("boolean", "true"),
   isTriggered |-> JsValue("boolean", "false"),
   pattern |-> JsValue("string", "* * * * *"),
   runOrder |-> JsValue("number", "-90"),
   func |-> JsValue("Function", "() => { throw new Error() }")]

\* What the caller passes as cachedLinkData: a LinkData with an id, or nothing.
NoLinkData == [defined |-> FALSE, id |-> <<>>]

\* The button of a message as Discord shows it. In a call of
\* validateMessageWithPlexButton, searched tells that the call's first edit was
\* made, which put the button into the searching state.
Button(customId, disabled, label) ==
  [customId |-> customId, disabled |-> disabled, label |-> label]

\* No call of validateMessageWithPlexButton in the slot yet.
NoValidation ==
  [pc |-> "idle", caller |-> "none", cachedLinkData |-> NoLinkData,
   button |-> Button("none", FALSE, ""), next |-> Button("none", FALSE, ""),
   searched |-> FALSE, threw |-> FALSE]

\* config.sanitized_catfact_api_responses.
sanitized_catfact_api_responses == {"fact1", "fact2", "fact3"}

\* What a message of the cat facts channel can hold: a fact, or something a
\* member wrote.
Contents == sanitized_catfact_api_responses \cup {"hello"}

\* A collection of messages, as the number of messages of each content.
NoMessages == [content \in Contents |-> 0]

Init ==
  /\ BUSY_PLUGIN_INTERACTIONS = {}
  /\ inv = [i \in Slots |-> NoInteraction]
  /\ caller = NoCaller
  /\ pendingInteractions = {}
  /\ legacy = [i \in Slots |-> NoLegacyInteraction]
  /\ cron = [job |-> NewCronJobScheduler, setter |-> "none",
             passed |-> JsValue("undefined", "undefined"), returned |-> "none"]
  /\ dl = [pc |-> "idle", endTime |-> <<>>, start |-> <<>>, end |-> <<>>,
           reply |-> "none", downloaded |-> FALSE, called |-> FALSE, files |-> {}]
  /\ thread = [pc |-> "idle", link |-> "", title |-> 0, threw |-> FALSE,
               returned |-> JsValue("undefined", "undefined")]
  /\ CACHED_LINK_DATA = [l \in {link[1] : link \in CacheLinks} |-> 0]
  /\ lookups = [i \in 1..NumLookups |-> NoLookup]
  /\ plex = [files |-> {}, written |-> {}, v |-> [i \in 1..NumValidations |-> NoValidation]]
  /\ cat = [channelMessages |-> NoMessages, pc |-> "idle", channelCatFacts |-> NoMessages,
            randomCatFact |-> "none"]

\* The ComponentOperation the handler of inv[i] constructs.
Operation(r) == ComponentOperation(r.interactionId, r.messageId, r.userId)

\* ------------------------------------------------------------------------
\* The event loop
\* ------------------------------------------------------------------------

\* An await between the isBusy check and setBusy(true) (say deferReply awaited
\* first): every position gives control back.
YieldsBeforeMark(pc) == TRUE

\* Whether a handler at this position has given control back to the event loop.
\* Every position but "mark" is an await (or the handler has not started, or has
\* ended).  "mark" is the point between `if (operation.isBusy) return;` and
\* `else operation.setBusy(true);`: the same statement, with no await in it.
Yields(pc) == pc # "mark"

\* No other handler is in the middle of a synchronous segment.
LoopFree(i) == \A j \in Slots \ {i} : Yields(inv[j].pc)

\* Handler i moves to record r; the registry is not touched.
Goto(i, r) ==
  /\ inv' = [inv EXCEPT ![i] = r]
  /\ UNCHANGED <<BUSY_PLUGIN_INTERACTIONS, caller, others>>

\* ------------------------------------------------------------------------
\* Interaction create: the handler's synchronous prefix
\* ------------------------------------------------------------------------

\* A component interaction arrives (a button press or a modal submit) and waits
\* for the event loop to run its handler.  Interactions are numbered in the order
\* of their arrival.
Arrive(i, h, s) ==
  /\ inv[i].pc = "idle"
  /\ \A j \in Slots : j < i => inv[j].pc # "idle"
  /\ Goto(i, [NoInteraction EXCEPT !.fn = h.fn, !.interactionId = h.interactionId,
                                   !.messageId = s[1], !.userId = s[2], !.pc = "queued"])

\* A decline that runs the handler's cleanup, as it would with the isBusy check
\* inside the try block: setBusy(false) removes the holder's mark.
DeclineReleasing(i) ==
  /\ BUSY_PLUGIN_INTERACTIONS' = SetBusy(Operation(inv[i]), FALSE, BUSY_PLUGIN_INTERACTIONS)
  /\ inv' = [inv EXCEPT ![i] = [inv[i] EXCEPT !.declined = TRUE, !.pc = "done"]]
  /\ UNCHANGED <<caller, others>>

\* The key is busy.  The two modal openers call interaction.deferUpdate() and
\* return; downloadLinkAndExecute and deleteLinkFromPlex just return.
Decline(i) ==
  IF inv[i].fn \in {"showMetadataModal", "showDeletionModal"}
    THEN Goto(i, [inv[i] EXCEPT !.declined = TRUE, !.ack = "deferUpdate", !.pc = "deferUpdate"])
    ELSE Goto(i, [inv[i] EXCEPT !.declined = TRUE, !.pc = "done"])

\* The key is not busy.  showMetadataModal starts its link lookup,
\* showDeletionModal builds and shows its modal (not awaited) and returns, the
\* two guarded handlers go on to setBusy(true).
Proceed(i) ==
  CASE inv[i].fn = "showMetadataModal" -> Goto(i, [inv[i] EXCEPT !.pc = "getLink"])
    [] inv[i].fn = "showDeletionModal" ->
         Goto(i, [inv[i] EXCEPT !.ack = "showModal", !.pc = "done"])
    [] OTHER -> Goto(i, [inv[i] EXCEPT !.pc = "mark"])

\* The handler starts: it constructs its ComponentOperation and reads isBusy.
Start(i) ==
  /\ inv[i].pc = "queued"
  /\ LoopFree(i)
  /\ IF IsBusy(Operation(inv[i]), BUSY_PLUGIN_INTERACTIONS) THEN Decline(i) ELSE Proceed(i)

\* `else operation.setBusy(true);` and then the call of interaction.deferReply(),
\* at whose await the handler is suspended.
Mark(i) ==
  /\ inv[i].pc = "mark"
  /\ LoopFree(i)
  /\ BUSY_PLUGIN_INTERACTIONS' = SetBusy(Operation(inv[i]), TRUE, BUSY_PLUGIN_INTERACTIONS)
  /\ inv' = [inv EXCEPT ![i] = [inv[i] EXCEPT !.ack = "deferReply", !.pc = "deferReply"]]
  /\ UNCHANGED <<caller, others>>

\* ------------------------------------------------------------------------
\* showMetadataModal and showDeletionModal after their first await
\* ------------------------------------------------------------------------

\* The awaited deferUpdate of a declined modal opener settles: the handler
\* returns, or rejects when deferUpdate rejected (it is outside any try).
DeferUpdateSettles(i, o) ==
  /\ inv[i].pc = "deferUpdate"
  /\ LoopFree(i)
  /\ o \in {"ok", "throw"}
  /\ Goto(i, [inv[i] EXCEPT !.exc = (o = "throw"), !.pc = "done"])

\* showMetadataModal's try block: the link and its cached data are read ("throw":
\* the lookup rejected or the link is unsupported, caught and logged), then the
\* modal is shown and awaited (a rejection is caught and logged).
ShowMetadataModalStep(i, o) ==
  /\ inv[i].fn = "showMetadataModal"
  /\ inv[i].pc \in {"getLink", "showModal"}
  /\ LoopFree(i)
  /\ o \in {"ok", "throw"}
  /\ IF inv[i].pc = "getLink" /\ o = "ok"
       THEN Goto(i, [inv[i] EXCEPT !.ack = "showModal", !.pc = "showModal"])
       ELSE Goto(i, [inv[i] EXCEPT !.pc = "done"])

\* ------------------------------------------------------------------------
\* downloadLinkAndExecute after setBusy(true)
\* ------------------------------------------------------------------------

\* The awaits of downloadLinkAndExecute, in the order of the code.
DownloadAwaits ==
  {"deferReply", "getLink", "getLinkData", "editReplyInvalid", "youtubedl",
   "callback", "fsRemove", "catchEditReply"}

\* What the awaited call, and the synchronous code after it up to the next await,
\* can do.  After getLinkData: "throw" is the TypeError of destructuring an
\* unsupported link's undefined data, "invalid" a failed timestamp validation.
DownloadOutcomes(pc) ==
  IF pc = "getLinkData" THEN {"ok", "throw", "invalid"} ELSE {"ok", "throw"}

\* setBusy(false) as the last statement of the try and of the catch block instead
\* of a finally block: an error thrown inside the catch block skips it.
DownloadFinallySkippedOnThrow(i, exc) ==
  /\ BUSY_PLUGIN_INTERACTIONS' =
       IF exc THEN BUSY_PLUGIN_INTERACTIONS
       ELSE SetBusy(Operation(inv[i]), FALSE, BUSY_PLUGIN_INTERACTIONS)
  /\ inv' = [inv EXCEPT ![i] = [inv[i] EXCEPT !.exc = exc, !.pc = "done"]]
  /\ UNCHANGED <<caller, others>>

\* finally { operation.setBusy(false); }: the handler ends, returning or (exc)
\* rejecting with the error thrown inside the catch block.
DownloadFinally(i, exc) ==
  /\ BUSY_PLUGIN_INTERACTIONS' = SetBusy(Operation(inv[i]), FALSE, BUSY_PLUGIN_INTERACTIONS)
  /\ inv' = [inv EXCEPT ![i] = [inv[i] EXCEPT !.exc = exc, !.pc = "done"]]
  /\ UNCHANGED <<caller, others>>

\* One synchronous segment of downloadLinkAndExecute: the await at inv[i].pc
\* settles with outcome o and the handler runs to its next await or to its end.
DownloadStep(i, o) ==
  /\ inv[i].fn = "downloadLinkAndExecute"
  /\ inv[i].pc \in DownloadAwaits
  /\ LoopFree(i)
  /\ o \in DownloadOutcomes(inv[i].pc)
  /\ CASE inv[i].pc = "catchEditReply" -> DownloadFinally(i, o = "throw")
       [] o = "throw" -> Goto(i, [inv[i] EXCEPT !.pc = "catchEditReply"])
       [] inv[i].pc = "deferReply" -> Goto(i, [inv[i] EXCEPT !.pc = "getLink"])
       [] inv[i].pc = "getLink" -> Goto(i, [inv[i] EXCEPT !.pc = "getLinkData"])
       [] inv[i].pc = "getLinkData" /\ o = "invalid" ->
            Goto(i, [inv[i] EXCEPT !.pc = "editReplyInvalid"])
       [] inv[i].pc = "getLinkData" /\ o = "ok" ->
            Goto(i, [inv[i] EXCEPT !.pc = "youtubedl"])
       [] inv[i].pc = "editReplyInvalid" -> DownloadFinally(i, FALSE)
       [] inv[i].pc = "youtubedl" -> Goto(i, [inv[i] EXCEPT !.pc = "callback"])
       [] inv[i].pc = "callback" -> Goto(i, [inv[i] EXCEPT !.pc = "fsRemove"])
       [] inv[i].pc = "fsRemove" -> DownloadFinally(i, FALSE)

\* ------------------------------------------------------------------------
\* deleteLinkFromPlex after setBusy(true)
\* ------------------------------------------------------------------------

\* The awaits of deleteLinkFromPlex's try and catch blocks.  "getExisting" stands
\* for getOrInitializeLinkData followed by getExistingPlexFilename,
\* "editReplyDeleted" for the success reply followed by startPlexLibraryScan
\* (which catches its own errors).
DeleteTryAwaits ==
  {"deferReply", "getLink", "getExisting", "fsRemove", "editReplyDeleted",
   "editReplyMissing", "catchEditReply"}

\* The awaits of its finally block, before operation.setBusy(false).
DeleteFinallyAwaits == {"finallyGetLink", "finallyGetLinkData", "finallyValidate"}

\* After getExisting: "ok" a file of the link exists, "missing" none does.
\* getOrInitializeLinkData and validateMessageWithPlexButton catch their errors.
DeleteOutcomes(pc) ==
  CASE pc = "getExisting" -> {"ok", "missing", "throw"}
    [] pc \in {"finallyGetLinkData", "finallyValidate"} -> {"ok"}
    [] OTHER -> {"ok", "throw"}

\* The finally block of deleteLinkFromPlex, one await at a time: the link is read
\* again from the message hierarchy (fetchStarterMessage may reject), its data is
\* looked up, the Plex button is validated, and only then operation.setBusy(false)
\* runs.  exc (inv[i].exc) is the error the finally block was entered with.
DeleteFinally(i, o) ==
  CASE inv[i].pc = "finallyGetLink" /\ o = "throw" ->
         Goto(i, [inv[i] EXCEPT !.exc = TRUE, !.pc = "done"])
    [] inv[i].pc = "finallyGetLink" /\ o = "ok" ->
         Goto(i, [inv[i] EXCEPT !.pc = "finallyGetLinkData"])
    [] inv[i].pc = "finallyGetLinkData" ->
         Goto(i, [inv[i] EXCEPT !.pc = "finallyValidate"])
    [] inv[i].pc = "finallyValidate" ->
         /\ BUSY_PLUGIN_INTERACTIONS' =
              SetBusy(Operation(inv[i]), FALSE, BUSY_PLUGIN_INTERACTIONS)
         /\ inv' = [inv EXCEPT ![i] = [inv[i] EXCEPT !.pc = "done"]]
         /\ UNCHANGED <<caller, others>>

\* The try or catch block is left and the finally block entered: its first call,
\* getLinkFromMessageHierarchy, is made and awaited.
DeleteEnterFinally(i, exc) ==
  Goto(i, [inv[i] EXCEPT !.exc = exc, !.pc = "finallyGetLink"])

\* One synchronous segment of deleteLinkFromPlex.
DeleteStep(i, o) ==
  /\ inv[i].fn = "deleteLinkFromPlex"
  /\ inv[i].pc \in DeleteTryAwaits \cup DeleteFinallyAwaits
  /\ LoopFree(i)
  /\ o \in DeleteOutcomes(inv[i].pc)
  /\ CASE inv[i].pc \in DeleteFinallyAwaits -> DeleteFinally(i, o)
       [] inv[i].pc = "catchEditReply" -> DeleteEnterFinally(i, o = "throw")
       [] o = "throw" -> Goto(i, [inv[i] EXCEPT !.pc = "catchEditReply"])
       [] inv[i].pc = "deferReply" -> Goto(i, [inv[i] EXCEPT !.pc = "getLink"])
       [] inv[i].pc = "getLink" -> Goto(i, [inv[i] EXCEPT !.pc = "getExisting"])
       [] inv[i].pc = "getExisting" /\ o = "ok" ->
            Goto(i, [inv[i] EXCEPT !.pc = "fsRemove"])
       [] inv[i].pc = "getExisting" /\ o = "missing" ->
            Goto(i, [inv[i] EXCEPT !.pc = "editReplyMissing"])
       [] inv[i].pc = "fsRemove" -> Goto(i, [inv[i] EXCEPT !.pc = "editReplyDeleted"])
       [] inv[i].pc \in {"editReplyDeleted", "editReplyMissing"} ->
            DeleteEnterFinally(i, FALSE)

\* ------------------------------------------------------------------------
\* A direct caller of ComponentOperation
\* ------------------------------------------------------------------------

\* A constructor that registers the new operation's key.
NewRegistering(t) ==
  /\ caller' = [constructed |-> TRUE, op |-> t, calls |-> <<>>]
  /\ BUSY_PLUGIN_INTERACTIONS' = BUSY_PLUGIN_INTERACTIONS \cup {ToString(t)}
  /\ UNCHANGED <<inv, others>>

\* new ComponentOperation({ interactionId, messageId, userId })
New(t) ==
  /\ caller' = [constructed |-> TRUE, op |-> t, calls |-> <<>>]
  /\ UNCHANGED <<BUSY_PLUGIN_INTERACTIONS, inv, others>>

\* A getter that tests the key with Set.add in place of Set.has.
CallIsBusyMarking ==
  /\ caller.constructed
  /\ Len(caller.calls) < MaxCalls
  /\ BUSY_PLUGIN_INTERACTIONS' = BUSY_PLUGIN_INTERACTIONS \cup {ToString(caller.op)}
  /\ caller' = [caller EXCEPT !.calls = Append(@, "isBusy")]
  /\ UNCHANGED <<inv, others>>

\* operation.isBusy
CallIsBusy ==
  /\ caller.constructed
  /\ Len(caller.calls) < MaxCalls
  /\ caller' = [caller EXCEPT !.calls = Append(@, "isBusy")]
  /\ UNCHANGED <<BUSY_PLUGIN_INTERACTIONS, inv, others>>

\* operation.setBusy(bool)
CallSetBusy(bool) ==
  /\ caller.constructed
  /\ Len(caller.calls) < MaxCalls
  /\ BUSY_PLUGIN_INTERACTIONS' = SetBusy(caller.op, bool, BUSY_PLUGIN_INTERACTIONS)
  /\ caller' = [caller EXCEPT !.calls = Append(@, IF bool THEN "setBusy(true)" ELSE "setBusy(false)")]
  /\ UNCHANGED <<inv, others>>

\* ------------------------------------------------------------------------
\* Specifications
\* ------------------------------------------------------------------------

Outcomes == {"ok", "throw", "invalid", "missing"}

\* The plugin: interactions arrive and their handlers interleave at awaits.
Next ==
  \E i \in Slots :
    \/ \E h \in COMPONENT_INTERACTIONS, s \in Subjects : Arrive(i, h, s)
    \/ Start(i)
    \/ Mark(i)
    \/ \E o \in Outcomes : DeferUpdateSettles(i, o)
    \/ \E o \in Outcomes : ShowMetadataModalStep(i, o)
    \/ \E o \in Outcomes : DownloadStep(i, o)
    \/ \E o \in Outcomes : DeleteStep(i, o)

Spec == Init /\ [][Next]_vars

\* The class alone: a caller constructs operations and calls isBusy and setBusy
\* in any order.
NextGuard ==
  \/ \E t \in Triples : New(t)
  \/ CallIsBusy
  \/ \E bool \in BOOLEAN : CallSetBusy(bool)

SpecGuard == Init /\ [][NextGuard]_vars

\* ------------------------------------------------------------------------
\* The legacy plugin: OnInteractionCreate and its handlers
\* ------------------------------------------------------------------------

DOWNLOAD_BUTTON == "music_download_script_download_button"
DOWNLOAD_MODAL == "music_download_script_download_modal"
PLEX_IMPORT_BUTTON == "music_download_script_plex_import_button"
PLEX_IMPORT_MODAL == "music_download_script_plex_import_modal"
PLEX_REMOVE_BUTTON == "music_download_script_plex_remove_button"
PLEX_REMOVE_MODAL == "music_download_script_plex_remove_modal"

INTERACTION_ACTIONS ==
  {DOWNLOAD_BUTTON, DOWNLOAD_MODAL, PLEX_IMPORT_BUTTON, PLEX_IMPORT_MODAL,
   PLEX_REMOVE_BUTTON, PLEX_REMOVE_MODAL}

\* The custom ids that reach the handler: its own and one of another plugin.
CustomIds == INTERACTION_ACTIONS \cup {"cat_facts_button"}

\* config.plex_user_role_id
plex_user_role_id == "plex_user_role_id"

\* The guild members that press buttons and submit modals: one with the Plex
\* user role and one without it.
Members ==
  {[userId |-> "3", roles |-> {plex_user_role_id}], [userId |-> "23", roles |-> {}]}

\* A role gate that lets every member through.
HasPlexUserRoleOrNot(r) == TRUE

\* roles.cache.has(config.plex_user_role_id)
HasPlexUserRole(r) == plex_user_role_id \in r.roles

\* Legacy handler i moves to record r; pendingInteractions is not touched.
LegacyGoto(i, r) ==
  /\ legacy' = [legacy EXCEPT ![i] = r]
  /\ UNCHANGED <<pendingInteractions, outsideLegacy>>

\* An interaction of the legacy plugin's messages arrives and waits for the
\* event loop.  Interactions are numbered in the order of their arrival.
LegacyArrive(i, customId, member) ==
  /\ legacy[i].pc = "idle"
  /\ \A j \in Slots : j < i => legacy[j].pc # "idle"
  /\ LegacyGoto(i, [NoLegacyInteraction EXCEPT !.customId = customId,
                      !.userId = member.userId, !.roles = member.roles, !.pc = "queued"])

\* OnInteractionCreate up to its first await: a pending customId + user id is
\* acknowledged with deferUpdate and dropped, a custom id of another plugin is
\* dropped, otherwise the thread's starter message is fetched.
OnInteractionCreate(i) ==
  /\ legacy[i].pc = "queued"
  /\ IF legacy[i].customId \o legacy[i].userId \in pendingInteractions
       THEN LegacyGoto(i, [legacy[i] EXCEPT !.reply = "deferUpdate", !.pc = "done"])
       ELSE IF legacy[i].customId \notin INTERACTION_ACTIONS
         THEN LegacyGoto(i, [legacy[i] EXCEPT !.pc = "done"])
         ELSE LegacyGoto(i, [legacy[i] EXCEPT !.pc = "fetchStarterMessage"])

\* replyUnauthorized: interaction.reply with the "You aren't authorized" text.
ReplyUnauthorized(i, r) ==
  LegacyGoto(i, [r EXCEPT !.ran = "replyUnauthorized", !.reply = "unauthorized", !.pc = "done"])

\* The call of showMetadataModal, which awaits the starter message.
CallShowMetadataModal(i, r) ==
  LegacyGoto(i, [r EXCEPT !.ran = "showMetadataModal", !.pc = "modalFetchStarterMessage"])

\* The call of showRemovalModal: it builds the modal and shows it.
CallShowRemovalModal(i, r) ==
  LegacyGoto(i, [r EXCEPT !.ran = "showRemovalModal", !.reply = "showModal",
                          !.effects = @ \cup {"modal"}, !.pc = "done"])

\* The call of uploadUrlToThread, importUrlIntoPlex or removeUrlFromPlex, each
\* of which awaits interaction.deferReply first.
CallDeferring(i, r, handler) ==
  LegacyGoto(i, [r EXCEPT !.ran = handler, !.reply = "deferReply", !.pc = "deferReply"])

\* The starter message arrives ("ok": of a configured channel, "foreign": of
\* another channel) or its fetch rejects; then the switch on customId.
OnInteractionCreateSwitch(i, o) ==
  /\ legacy[i].pc = "fetchStarterMessage"
  /\ o \in {"ok", "foreign", "throw"}
  /\ LET r == [legacy[i] EXCEPT !.starter = o] IN
     CASE o = "throw" -> LegacyGoto(i, [r EXCEPT !.exc = TRUE, !.pc = "done"])
       [] o = "foreign" -> LegacyGoto(i, [r EXCEPT !.pc = "done"])
       [] o = "ok" /\ r.customId = DOWNLOAD_BUTTON -> CallShowMetadataModal(i, r)
       [] o = "ok" /\ r.customId = DOWNLOAD_MODAL -> CallDeferring(i, r, "uploadUrlToThread")
       [] o = "ok" /\ r.customId = PLEX_IMPORT_BUTTON ->
            IF HasPlexUserRole(r) THEN CallShowMetadataModal(i, r) ELSE ReplyUnauthorized(i, r)
       [] o = "ok" /\ r.customId = PLEX_IMPORT_MODAL ->
            IF HasPlexUserRole(r) THEN CallDeferring(i, r, "importUrlIntoPlex")
            ELSE ReplyUnauthorized(i, r)
       [] o = "ok" /\ r.customId = PLEX_REMOVE_BUTTON ->
            IF HasPlexUserRole(r) THEN CallShowRemovalModal(i, r) ELSE ReplyUnauthorized(i, r)
       [] o = "ok" /\ r.customId = PLEX_REMOVE_MODAL ->
            IF HasPlexUserRole(r) THEN CallDeferring(i, r, "removeUrlFromPlex")
            ELSE ReplyUnauthorized(i, r)

\* showMetadataModal: the starter message is fetched ("missing": it holds no
\* url), oEmbed is asked (its rejection is replaced with empty strings) and the
\* modal is shown.
LegacyShowMetadataModal(i, o) ==
  /\ legacy[i].ran = "showMetadataModal"
  /\ \/ /\ legacy[i].pc = "modalFetchStarterMessage"
        /\ o \in {"ok", "missing", "throw"}
        /\ CASE o = "ok" -> LegacyGoto(i, [legacy[i] EXCEPT !.pc = "oembed"])
             [] o = "missing" -> LegacyGoto(i, [legacy[i] EXCEPT !.pc = "done"])
             [] o = "throw" -> LegacyGoto(i, [legacy[i] EXCEPT !.exc = TRUE, !.pc = "done"])
     \/ /\ legacy[i].pc = "oembed"
        /\ o \in {"ok", "throw"}
        /\ LegacyGoto(i, [legacy[i] EXCEPT !.reply = "showModal",
                            !.effects = @ \cup {"modal"}, !.pc = "done"])

\* importUrlIntoPlex: deferReply, the starter message, then download(); when it
\* resolves the file is moved into the Plex directory unless one of its name
\* exists ("exists": the temporary directory is removed instead), when it rejects
\* the error is replied.
ImportUrlIntoPlex(i, o) ==
  /\ legacy[i].ran = "importUrlIntoPlex"
  /\ \/ /\ legacy[i].pc = "deferReply"
        /\ o \in {"ok", "throw"}
        /\ IF o = "ok" THEN LegacyGoto(i, [legacy[i] EXCEPT !.pc = "fetchStarterMessage2"])
           ELSE LegacyGoto(i, [legacy[i] EXCEPT !.exc = TRUE, !.pc = "done"])
     \/ /\ legacy[i].pc = "fetchStarterMessage2"
        /\ o \in {"ok", "throw"}
        /\ IF o = "ok"
             THEN LegacyGoto(i, [legacy[i] EXCEPT !.effects = @ \cup {"download"},
                                                  !.pc = "download"])
             ELSE LegacyGoto(i, [legacy[i] EXCEPT !.exc = TRUE, !.pc = "done"])
     \/ /\ legacy[i].pc = "download"
        /\ o \in {"ok", "exists", "throw"}
        /\ CASE o = "ok" -> LegacyGoto(i, [legacy[i] EXCEPT !.effects = @ \cup {"move"},
                                                            !.pc = "done"])
             [] o = "exists" -> LegacyGoto(i, [legacy[i] EXCEPT !.pc = "done"])
             [] o = "throw" -> LegacyGoto(i, [legacy[i] EXCEPT !.pc = "done"])

\* removeUrlFromPlex: deferReply, the starter message, then download() to learn
\* the file's name; the file of that name is removed from the Plex directory
\* ("exists") or is not there ("ok").
RemoveUrlFromPlex(i, o) ==
  /\ legacy[i].ran = "removeUrlFromPlex"
  /\ \/ /\ legacy[i].pc = "deferReply"
        /\ o \in {"ok", "throw"}
        /\ IF o = "ok" THEN LegacyGoto(i, [legacy[i] EXCEPT !.pc = "fetchStarterMessage2"])
           ELSE LegacyGoto(i, [legacy[i] EXCEPT !.exc = TRUE, !.pc = "done"])
     \/ /\ legacy[i].pc = "fetchStarterMessage2"
        /\ o \in {"ok", "throw"}
        /\ IF o = "ok"
             THEN LegacyGoto(i, [legacy[i] EXCEPT !.effects = @ \cup {"download"},
                                                  !.pc = "download"])
             ELSE LegacyGoto(i, [legacy[i] EXCEPT !.exc = TRUE, !.pc = "done"])
     \/ /\ legacy[i].pc = "download"
        /\ o \in {"ok", "exists", "throw"}
        /\ CASE o = "exists" -> LegacyGoto(i, [legacy[i] EXCEPT !.effects = @ \cup {"remove"},
                                                                !.pc = "done"])
             [] o = "ok" -> LegacyGoto(i, [legacy[i] EXCEPT !.pc = "done"])
             [] o = "throw" -> LegacyGoto(i, [legacy[i] EXCEPT !.pc = "done"])

\* uploadUrlToThread: after deferReply the key DOWNLOAD_BUTTON + user id is added
\* to pendingInteractions and the starter message is fetched; then download()
\* runs, whose promise chain deletes the key when it settles and, when it
\* resolved, replies with the file and removes the temporary directory.
UploadUrlToThread(i, o) ==
  /\ legacy[i].ran = "uploadUrlToThread"
  /\ o \in {"ok", "throw"}
  /\ LET key == DOWNLOAD_BUTTON \o legacy[i].userId IN
     \/ /\ legacy[i].pc = "deferReply"
        /\ IF o = "ok"
             THEN /\ pendingInteractions' = pendingInteractions \cup {key}
                  /\ legacy' = [legacy EXCEPT ![i].pc = "fetchStarterMessage2"]
                  /\ UNCHANGED outsideLegacy
             ELSE LegacyGoto(i, [legacy[i] EXCEPT !.exc = TRUE, !.pc = "done"])
     \/ /\ legacy[i].pc = "fetchStarterMessage2"
        /\ IF o = "ok"
             THEN LegacyGoto(i, [legacy[i] EXCEPT !.effects = @ \cup {"download"},
                                                  !.pc = "download"])
             ELSE LegacyGoto(i, [legacy[i] EXCEPT !.exc = TRUE, !.pc = "done"])
     \/ /\ legacy[i].pc = "download"
        /\ pendingInteractions' = pendingInteractions \ {key}
        /\ legacy' = [legacy EXCEPT ![i].pc = IF o = "ok" THEN "editReplyFiles" ELSE "done"]
        /\ UNCHANGED outsideLegacy
     \/ /\ legacy[i].pc = "editReplyFiles"
        /\ LegacyGoto(i, [legacy[i] EXCEPT !.reply = IF o = "ok" THEN "files" ELSE @,
                                            !.pc = "done"])

LegacyOutcomes == {"ok", "foreign", "missing", "exists", "throw"}

NextLegacy ==
  \E i \in Slots :
    \/ \E customId \in CustomIds, member \in Members : LegacyArrive(i, customId, member)
    \/ OnInteractionCreate(i)
    \/ \E o \in LegacyOutcomes : OnInteractionCreateSwitch(i, o)
    \/ \E o \in LegacyOutcomes : LegacyShowMetadataModal(i, o)
    \/ \E o \in LegacyOutcomes : ImportUrlIntoPlex(i, o)
    \/ \E o \in LegacyOutcomes : RemoveUrlFromPlex(i, o)
    \/ \E o \in LegacyOutcomes : UploadUrlToThread(i, o)

SpecLegacy == Init /\ [][NextLegacy]_vars

\* ------------------------------------------------------------------------
\* CronJobScheduler
\* ------------------------------------------------------------------------

\* The values passed to the setters.
JsValues ==
  {JsValue("Date", "2026-01-01"), JsValue("boolean", "true"), JsValue("boolean", "false"),
   JsValue("Function", "() => 1"), JsValue("AsyncFunction", "async () => 1"),
   JsValue("string", "0 9 * * *"), JsValue("number", "5"),
   JsValue("undefined", "undefined")}

Setters == {"setDate", "setEnabled", "setFunction", "setPattern", "setRunOrder", "setTriggered"}

\* The types each setter passes to Utilities.throwType or Utilities.throwTypes.
SetterTypes(setter) ==
  CASE setter = "setDate" -> {"Date"}
    [] setter = "setEnabled" -> {"boolean", "Function", "AsyncFunction"}
    [] setter = "setFunction" -> {"Function", "AsyncFunction"}
    [] setter = "setPattern" -> {"string"}
    [] setter = "setRunOrder" -> {"number"}
    [] setter = "setTriggered" -> {"boolean", "Function", "AsyncFunction"}

\* setTriggered written over a copy of setEnabled, still assigning isEnabled.
SetterFieldCopied(setter) ==
  CASE setter = "setDate" -> "date"
    [] setter = "setEnabled" -> "isEnabled"
    [] setter = "setFunction" -> "func"
    [] setter = "setPattern" -> "pattern"
    [] setter = "setRunOrder" -> "runOrder"
    [] setter = "setTriggered" -> "isEnabled"

\* The field each setter assigns.
SetterField(setter) ==
  CASE setter = "setDate" -> "date"
    [] setter = "setEnabled" -> "isEnabled"
    [] setter = "setFunction" -> "func"
    [] setter = "setPattern" -> "pattern"
    [] setter = "setRunOrder" -> "runOrder"
    [] setter = "setTriggered" -> "isTriggered"

\* Utilities.throwTypes(types, value): whether it throws, which it does for a
\* value of none of the types.
ThrowTypes(types, value) == value.type \notin types

\* One setter applied to the fields job: the default parameter value (true, of
\* setEnabled and setTriggered) replaces undefined, the type is checked, the
\* field is assigned and `this` returned.
Setter(setter, passed, job) ==
  LET value == IF setter \in {"setEnabled", "setTriggered"} /\ passed.type = "undefined"
                 THEN JsValue("boolean", "true") ELSE passed
  IN IF ThrowTypes(SetterTypes(setter), value)
       THEN [job |-> job, returned |-> "threw"]
       ELSE [job |-> [job EXCEPT ![SetterField(setter)] = value], returned |-> "this"]

\* A caller calls a setter of the scheduler.
CallSetter(setter, passed) ==
  /\ cron' = [job |-> Setter(setter, passed, cron.job).job, setter |-> setter,
              passed |-> passed, returned |-> Setter(setter, passed, cron.job).returned]
  /\ UNCHANGED outsideCron

NextCron == \E setter \in Setters, passed \in JsValues : CallSetter(setter, passed)

SpecCron == Init /\ [][NextCron]_vars

\* ------------------------------------------------------------------------
\* downloadLinkAndExecute: the timestamps, their validation and the download
\* ------------------------------------------------------------------------

\* A timestamp string is held as the fields between its colons, the result of
\* split(":"), and a field as its characters.
Digits == <<"0", "1", "2", "3", "4", "5", "6", "7", "8", "9">>

IsDigits(field) == \A k \in 1..Len(field) : \E d \in 1..Len(Digits) : Digits[d] = field[k]

\* /^(\d{1,3}:)?\d{2}:\d{2}:\d{2}$/.test(timestamp)
MatchesTimestampPattern(timestamp) ==
  /\ Len(timestamp) \in {3, 4}
  /\ \A k \in 1..Len(timestamp) : IsDigits(timestamp[k])
  /\ \A k \in (Len(timestamp) - 2)..Len(timestamp) : Len(timestamp[k]) = 2
  /\ Len(timestamp) = 4 => Len(timestamp[1]) \in 1..3

\* The value of a string of decimal digits.
RECURSIVE DigitsValue(_)
DigitsValue(field) ==
  IF field = <<>> THEN 0
  ELSE 10 * DigitsValue(SubSeq(field, 1, Len(field) - 1))
         + (CHOOSE d \in 0..9 : Digits[d + 1] = field[Len(field)])

\* A JavaScript number is a natural number or NaN; a comparison with NaN is
\* false.
NaN == [nan |-> TRUE, n |-> 0]

\* +time[k]: the k-th field as a number, NaN for a missing field (undefined) and
\* for a field that is not a decimal number.
ToNumber(time, k) ==
  IF k <= Len(time) /\ IsDigits(time[k]) THEN [nan |-> FALSE, n |-> DigitsValue(time[k])]
  ELSE NaN

\* A conversion that weighs the fields from the last one: seconds, minutes,
\* hours, and the optional leading group as days.
GetTimestampFromLastField(timestamp) ==
  LET len == Len(timestamp)
      At(k) == IF k >= 1 THEN ToNumber(timestamp, k) ELSE [nan |-> FALSE, n |-> 0]
  IN IF At(len).nan \/ At(len - 1).nan \/ At(len - 2).nan \/ At(len - 3).nan THEN NaN
     ELSE [nan |-> FALSE,
           n |-> At(len - 3).n * 24 * 60 * 60 + At(len - 2).n * 60 * 60
                   + At(len - 1).n * 60 + At(len).n]

\* getTimestampAsTotalSeconds(timestamp):
\* (+time[0]) * 60 * 60 + (+time[1]) * 60 + (+time[2])
GetTimestampAsTotalSeconds(timestamp) ==
  IF ToNumber(timestamp, 1).nan \/ ToNumber(timestamp, 2).nan \/ ToNumber(timestamp, 3).nan
    THEN NaN
    ELSE [nan |-> FALSE,
          n |-> ToNumber(timestamp, 1).n * 60 * 60 + ToNumber(timestamp, 2).n * 60
                  + ToNumber(timestamp, 3).n]

\* a > b and a >= b of JavaScript numbers.
Greater(a, b) == ~a.nan /\ ~b.nan /\ a.n > b.n
GreaterOrEqual(a, b) == ~a.nan /\ ~b.nan /\ a.n >= b.n

\* The end times yt-dlp prints with %(duration>%H:%M:%S)s.
EndTimes == {<<h, m, s>> : h \in {<<"0", "0">>}, m \in {<<"0", "0">>, <<"1", "0">>},
                           s \in {<<"0", "0">>, <<"1", "0">>}}

\* The texts a user types into the start and end inputs of the modal: with
\* three fields, with the leading group, and ones the pattern rejects.
InputTimestamps ==
  EndTimes
  \cup {<<d>> \o t : d \in {<<"0">>, <<"1">>}, t \in EndTimes}
  \cup {<<<<"1">>, <<"0", "0">>>>, <<<<"0", "0">>, <<"0", "0">>, <<"x", "0">>>>,
        <<<<"0", "0">>, <<"1", "0">>, <<"1">>>>}

\* The modal is submitted and downloadLinkAndExecute reaches its validation
\* with the link's end time and the two inputs.
SubmitTimestamps(endTime, start, end) ==
  /\ dl.pc = "idle"
  /\ dl' = [dl EXCEPT !.pc = "validate", !.endTime = endTime, !.start = start, !.end = end]
  /\ UNCHANGED outsideDownload

\* The four validations in the order of the code: the first that fails replies
\* with its error and returns; when none fails yt-dlp is started.
Validate ==
  /\ dl.pc = "validate"
  /\ LET endTimeTotalSeconds == GetTimestampAsTotalSeconds(dl.endTime)
         inputStartTimeTotalSeconds == GetTimestampAsTotalSeconds(dl.start)
         inputEndTimeTotalSeconds == GetTimestampAsTotalSeconds(dl.end)
         Reject(content) == dl' = [dl EXCEPT !.reply = content, !.pc = "done"]
     IN CASE ~MatchesTimestampPattern(dl.start) -> Reject("start is not a valid timestamp")
          [] MatchesTimestampPattern(dl.start) /\ ~MatchesTimestampPattern(dl.end) ->
               Reject("end is not a valid timestamp")
          [] /\ MatchesTimestampPattern(dl.start) /\ MatchesTimestampPattern(dl.end)
             /\ Greater(inputEndTimeTotalSeconds, endTimeTotalSeconds) ->
               Reject("End time can't exceed endTime")
          [] /\ MatchesTimestampPattern(dl.start) /\ MatchesTimestampPattern(dl.end)
             /\ ~Greater(inputEndTimeTotalSeconds, endTimeTotalSeconds)
             /\ GreaterOrEqual(inputStartTimeTotalSeconds, inputEndTimeTotalSeconds) ->
               Reject("Start time can't be after end time")
          [] OTHER -> dl' = [dl EXCEPT !.pc = "youtubedl"]
  /\ UNCHANGED outsideDownload

\* await youtubedl(linkWithoutParameters, options): the download writes its file
\* into the output directory, or rejects and the catch block replies the error.
Youtubedl(o) ==
  /\ dl.pc = "youtubedl"
  /\ dl' = IF o = "ok"
             THEN [dl EXCEPT !.downloaded = TRUE, !.files = {"outputFilename"}, !.pc = "callback"]
             ELSE [dl EXCEPT !.downloaded = TRUE, !.reply = "error", !.pc = "done"]
  /\ UNCHANGED outsideDownload

\* await callback(...) and await fs.remove(outputDirectory).
Callback(o) ==
  /\ dl.pc = "callback"
  /\ dl' = IF o = "ok"
             THEN [dl EXCEPT !.called = TRUE, !.files = {}, !.reply = "callback", !.pc = "done"]
             ELSE [dl EXCEPT !.called = TRUE, !.reply = "error", !.pc = "done"]
  /\ UNCHANGED outsideDownload

NextValidate ==
  \/ \E endTime \in EndTimes, start \in InputTimestamps, end \in InputTimestamps :
       SubmitTimestamps(endTime, start, end)
  \/ Validate
  \/ \E o \in {"ok", "throw"} : Youtubedl(o)
  \/ \E o \in {"ok", "throw"} : Callback(o)

SpecValidate == Init /\ [][NextValidate]_vars

\* ------------------------------------------------------------------------
\* getThreadChannelName
\* ------------------------------------------------------------------------

\* The longest title, in UTF-16 code units, of a video or a playlist.
MaxTitleLength == 100

\* The length of "\U+1F4F2 " (a surrogate pair and a space), the limit of
\* `result.length > 100` and the end of `result.slice(0, 97)`.
PrefixLength == 3
NameLimit == 100
SliceEnd == 97

\* The links of a cached LinkData: a video, a video opened from a playlist
\* (list= and v=) and a playlist alone.
ThreadLinks == {"watch?v=", "watch?v=&list=", "playlist?list="}

\* getIsLinkYouTubePlaylist(link) && !link.includes("v=")
IsLinkYouTubePlaylistWithoutVideo(link) == link = "playlist?list="

\* A string is held as its text's kind, its length and whether it ends in the
\* "..." of the truncation.  `\U+1F4F2 ${title}` for a title of the given length:
ComposedName(titleLength) ==
  JsValue("string", [text |-> "title", length |-> PrefixLength + titleLength, sliced |-> FALSE])

\* A Promise and its state; its value is read once it is fulfilled.
Promise(state, value) == JsValue("Promise", [state |-> state, value |-> value])

\* `if (result.length > 100) return result.slice(0, 97) + "..."; return result;`
\* Only a string has a length: for any other value result.length is undefined
\* and the comparison is false.
TruncatedOrResult(result) ==
  IF result.type = "string" /\ result.val.length > NameLimit
    THEN JsValue("string", [text |-> result.val.text, length |-> SliceEnd + 3, sliced |-> TRUE])
    ELSE result

\* getThreadChannelName up to its return.  The async arrow function is called
\* and not awaited: result is its Promise, pending at `await ytpl(link)` for a
\* playlist link and fulfilled with the composed name otherwise.  Nothing in
\* the try block throws, so the catch block (which would return the text
\* "Error fetching title") is not entered, and the function returns
\* TruncatedOrResult(result).
CallGetThreadChannelName(link, title) ==
  /\ thread.pc = "idle"
  /\ LET result == IF IsLinkYouTubePlaylistWithoutVideo(link)
                     THEN Promise("pending", JsValue("undefined", "undefined"))
                     ELSE Promise("fulfilled", ComposedName(title))
     IN thread' = [thread EXCEPT !.link = link, !.title = title,
                     !.returned = TruncatedOrResult(result),
                     !.pc = IF result.val.state = "pending" THEN "ytpl" ELSE "done"]
  /\ UNCHANGED outsideThread

\* ytpl(link) settles and the arrow function ends: with the playlist's title
\* (the video's title when the playlist has none), or rejecting when ytpl
\* rejected.  The Promise getThreadChannelName returned is the arrow function's.
YtplSettles(o, playlistTitle) ==
  /\ thread.pc = "ytpl"
  /\ LET settled ==
           IF o = "throw" THEN Promise("rejected", JsValue("Error", "ytpl"))
           ELSE Promise("fulfilled",
                        ComposedName(IF playlistTitle > 0 THEN playlistTitle ELSE thread.title))
     IN thread' = [thread EXCEPT !.threw = (o = "throw"), !.pc = "done",
                     !.returned = IF @.type = "Promise" THEN settled ELSE @]
  /\ UNCHANGED outsideThread

NextThread ==
  \/ \E link \in ThreadLinks, title \in 0..MaxTitleLength : CallGetThreadChannelName(link, title)
  \/ \E o \in {"ok", "throw"}, playlistTitle \in 0..MaxTitleLength : YtplSettles(o, playlistTitle)

SpecThread == Init /\ [][NextThread]_vars

\* ------------------------------------------------------------------------
\* getOrInitializeLinkData and its cache
\* ------------------------------------------------------------------------

\* A cache keyed by the whole link, parameters included.
GetLinkWithParametersKept(link) == link[1] \o link[2]

\* getLinkWithParametersRemoved(link): link.match(/(https?:\/\/[^&\s]+)/)[1]
GetLinkWithParametersRemoved(link) == link[1]

\* The i-th call of getOrInitializeLinkData(link) up to its first await: a
\* cached object of the stripped link is returned, otherwise oEmbed is asked.
\* Calls are numbered in the order in which they are made.
GetOrInitializeLinkData(i, link) ==
  /\ lookups[i].pc = "idle"
  /\ \A j \in 1..NumLookups : j < i => lookups[j].pc # "idle"
  /\ LET linkWithoutParameters == GetLinkWithParametersRemoved(link)
         cachedLinkData == IF linkWithoutParameters \in DOMAIN CACHED_LINK_DATA
                             THEN CACHED_LINK_DATA[linkWithoutParameters] ELSE 0
         known == {lookups[j].returned : j \in {k \in 1..NumLookups :
                     /\ lookups[k].pc = "done"
                     /\ lookups[k].returned # 0
                     /\ lookups[k].link[1] = link[1]}}
     IN lookups' = [lookups EXCEPT ![i] =
          IF cachedLinkData # 0
            THEN [NoLookup EXCEPT !.link = link, !.known = known, !.pc = "done",
                                  !.returned = cachedLinkData]
            ELSE [NoLookup EXCEPT !.link = link, !.known = known, !.pc = "oembed",
                                  !.outbound = {"oembed"}]]
  /\ UNCHANGED <<CACHED_LINK_DATA, outsideCache>>

\* What oembed.extract gives: a rejection, or an author_name and a title.
OembedResponses ==
  {[rejected |-> TRUE, author_name |-> "", title |-> ""],
   [rejected |-> FALSE, author_name |-> "Artist", title |-> "Title"],
   [rejected |-> FALSE, author_name |-> "Artist - Topic", title |-> "Artist - Title"],
   [rejected |-> FALSE, author_name |-> "Artist", title |-> "Artist - "]}

\* What yt-dlp prints for "%(duration>%H:%M:%S)s,%(id)s", held as the parts
\* between its commas, or a rejection.
YoutubedlResponses ==
  {[rejected |-> TRUE, str |-> <<>>],
   [rejected |-> FALSE, str |-> <<"00:10:10", "dQw4">>],
   [rejected |-> FALSE, str |-> <<"", "dQw4">>]}

\* getCleanMetadataArtist on the author names above: a trailing " - Topic" is
\* cut and the rest trimmed.
GetCleanMetadataArtist(author_name) ==
  CASE author_name = "Artist - Topic" -> "Artist"
    [] OTHER -> author_name

\* getCleanMetadataTitle on the titles above: a leading `${author_name} - ` is
\* cut and the rest trimmed (no title above ends in ` by ${author_name}`).
GetCleanMetadataTitle(author_name, title) ==
  CASE title = "Artist - Title" /\ author_name = "Artist" -> "Title"
    [] title = "Artist - " /\ author_name = "Artist" -> ""
    [] OTHER -> title

\* A test that lets the empty string through: `value === undefined`.
IsUndefined(value) == value = "undefined"

\* !value of a string or undefined.
Not(value) == value \in {"", "undefined"}

\* oembed.extract settles: the cleaned author name and title are taken from the
\* response (both undefined when it rejected); without one of them the call
\* returns undefined, otherwise yt-dlp is asked for the end time and the id.
OembedSettles(i, o) ==
  /\ lookups[i].pc = "oembed"
  /\ LET authorName == IF o.rejected THEN "undefined" ELSE GetCleanMetadataArtist(o.author_name)
         title == IF o.rejected THEN "undefined"
                  ELSE GetCleanMetadataTitle(o.author_name, o.title)
     IN lookups' = [lookups EXCEPT ![i] =
          IF Not(authorName) \/ Not(title)
            THEN [@ EXCEPT !.authorName = authorName, !.title = title, !.pc = "done"]
            ELSE [@ EXCEPT !.authorName = authorName, !.title = title, !.pc = "youtubedl",
                           !.outbound = @ \cup {"youtubedl"}]]
  /\ UNCHANGED <<CACHED_LINK_DATA, outsideCache>>

\* yt-dlp settles: the end time and the id are the first two parts of its
\* output (both undefined when it rejected); without one of them the call
\* returns undefined, otherwise a new LinkData is stored under the stripped
\* link and returned.
YoutubedlSettles(i, o) ==
  /\ lookups[i].pc = "youtubedl"
  /\ LET endTime == IF ~o.rejected /\ Len(o.str) >= 1 THEN o.str[1] ELSE "undefined"
         id == IF ~o.rejected /\ Len(o.str) >= 2 THEN o.str[2] ELSE "undefined"
         linkWithoutParameters == GetLinkWithParametersRemoved(lookups[i].link)
     IN IF Not(endTime) \/ Not(id)
          THEN /\ lookups' = [lookups EXCEPT ![i].endTime = endTime, ![i].id = id,
                                              ![i].pc = "done"]
               /\ UNCHANGED CACHED_LINK_DATA
          ELSE /\ CACHED_LINK_DATA' =
                    [l \in DOMAIN CACHED_LINK_DATA \cup {linkWithoutParameters} |->
                       IF l = linkWithoutParameters THEN i ELSE CACHED_LINK_DATA[l]]
               /\ lookups' = [lookups EXCEPT ![i].endTime = endTime, ![i].id = id,
                                              ![i].pc = "done", ![i].returned = i]
  /\ UNCHANGED outsideCache

NextCache ==
  \E i \in 1..NumLookups :
    \/ \E link \in CacheLinks : GetOrInitializeLinkData(i, link)
    \/ \E o \in OembedResponses : OembedSettles(i, o)
    \/ \E o \in YoutubedlResponses : YoutubedlSettles(i, o)

SpecCache == Init /\ [][NextCache]_vars

\* ------------------------------------------------------------------------
\* The cat facts cron job
\* ------------------------------------------------------------------------
\* A collection of messages is held as the number of messages of each content.

\* The number of messages in a collection.
Count(messages) ==
  messages["fact1"] + messages["fact2"] + messages["fact3"] + messages["hello"]

\* Every configured fact, whatever the channel holds.
AllCatFacts(channelCatFacts) == sanitized_catfact_api_responses

\* config.sanitized_catfact_api_responses.filter(fact => !channelCatFacts.includes(fact))
UnsentCatFacts(channelCatFacts) ==
  {fact \in sanitized_catfact_api_responses : channelCatFacts[fact] = 0}

\* getLeastFrequentlyOccurringStrings: the strings of the collection that occur
\* in it the fewest times.
GetLeastFrequentlyOccurringStrings(strings) ==
  {str \in Contents :
     /\ strings[str] > 0
     /\ \A other \in Contents : strings[other] > 0 => strings[str] <= strings[other]}

\* A message is created in the announcement channel by something other than
\* the cron job.
ChannelMessageCreate(content) ==
  /\ Count(cat.channelMessages) < MaxChannelMessages
  /\ cat' = [cat EXCEPT !.channelMessages[content] = @ + 1]
  /\ UNCHANGED outsideCat

\* The cron job fires and asks for the channel's messages.
CronJob ==
  /\ cat.pc = "idle"
  /\ Count(cat.channelMessages) < MaxChannelMessages
  /\ cat' = [cat EXCEPT !.pc = "getChannelMessages"]
  /\ UNCHANGED outsideCat

\* getChannelMessages settles: the potential cat facts are the configured facts
\* the channel does not hold or, when it holds them all, its least frequent
\* messages; randomItem picks one and the job goes on to send it.
GetChannelMessagesSettles(o, randomCatFact) ==
  /\ cat.pc = "getChannelMessages"
  /\ LET channelCatFacts == cat.channelMessages
         unsent == UnsentCatFacts(channelCatFacts)
         potentialCatFacts == IF unsent = {} THEN GetLeastFrequentlyOccurringStrings(channelCatFacts)
                              ELSE unsent
     IN IF o = "ok"
          THEN /\ randomCatFact \in potentialCatFacts
               /\ cat' = [cat EXCEPT !.channelCatFacts = channelCatFacts,
                                     !.randomCatFact = randomCatFact, !.pc = "send"]
          ELSE cat' = [cat EXCEPT !.pc = "idle"]
  /\ UNCHANGED outsideCat

\* The fetch of the channel and channel.send settle: a sent fact is a new
\* message of the channel. The job is over either way.
ChannelSendSettles(o) ==
  /\ cat.pc = "send"
  /\ cat' = [cat EXCEPT
       !.channelMessages[cat.randomCatFact] = IF o = "ok" THEN @ + 1 ELSE @,
       !.channelCatFacts = NoMessages, !.randomCatFact = "none", !.pc = "idle"]
  /\ UNCHANGED outsideCat

NextCat ==
  \/ \E content \in Contents : ChannelMessageCreate(content)
  \/ CronJob
  \/ \E o \in {"ok", "throw"}, randomCatFact \in Contents : GetChannelMessagesSettles(o, randomCatFact)
  \/ \E o \in {"ok", "throw"} : ChannelSendSettles(o)

SpecCat == Init /\ [][NextCat]_vars

\* ------------------------------------------------------------------------
\* The Plex download directory and validateMessageWithPlexButton
\* ------------------------------------------------------------------------
\* Strings are held as the sequences of their characters.

SEARCHING_PLEX_BUTTON == "SEARCHING_PLEX_BUTTON"

IMPORT_INTO_PLEX_BUTTON == "IMPORT_INTO_PLEX_BUTTON"

DELETE_FROM_PLEX_BUTTON == "DELETE_FROM_PLEX_BUTTON"

\* The ids yt-dlp reports for the links.
LinkIds == {<<"a", "b">>, <<"a">>, <<"a", ".", "b">>}

\* The artist and the title typed into the metadata modal.
InputArtists == {<<"A">>}

InputTitles == {<<"T", " ", "-", " ", "U", "/", " ", "V", "?">>}

\* The extension yt-dlp gives the extracted audio.
Extensions == {<<"m", "p", "3">>}

\* Characters the sanitize library removes from a filename.
IllegalCharacters == {"/", "?", "<", ">", "\\", ":", "*", "|"}

RECURSIVE CollapseSpaces(_)
\* str.replace(/  +/g, " ")
CollapseSpaces(str) ==
  IF Len(str) < 2 THEN str
  ELSE IF str[1] = " " /\ str[2] = " " THEN CollapseSpaces(Tail(str))
  ELSE <<str[1]>> \o CollapseSpaces(Tail(str))

\* sanitizeFilename: slashes become spaces, runs of spaces one space, and
\* sanitize removes what is left of the illegal characters (none of the names
\* here ends in a space or a period, which sanitize would trim).
SanitizeFilename(str) ==
  LET replaced == [k \in 1..Len(str) |-> IF str[k] \in {"/", "\\"} THEN " " ELSE str[k]]
      IsLegal(c) == c \notin IllegalCharacters
  IN SelectSeq(CollapseSpaces(replaced), IsLegal)

\* The name yt-dlp gives the downloaded file:
\* `${sanitizeFilename(`${inputArtist} - ${inputTitle}`)} - %(id)s.%(ext)s`.
OutputFilename(inputArtist, inputTitle, id, ext) ==
  SanitizeFilename(inputArtist \o <<" ", "-", " ">> \o inputTitle)
    \o <<" ", "-", " ">> \o id \o <<".">> \o ext

RECURSIVE Split(_, _)
\* str.split(separator) for a non-empty separator.
Split(str, separator) ==
  LET n == Len(separator)
      at == {k \in 1..(Len(str) + 1 - n) : SubSeq(str, k, k + n - 1) = separator}
  IN IF at = {} THEN <<str>>
     ELSE LET k == CHOOSE x \in at : \A y \in at : x <= y
          IN <<SubSeq(str, 1, k - 1)>> \o Split(SubSeq(str, k + n, Len(str)), separator)

\* filename.split(' - ').slice(-1)[0].split('.')[0]
FilenameId(filename) ==
  LET fields == Split(filename, <<" ", "-", " ">>) IN Split(fields[Len(fields)], <<".">>)[1]

\* getExistingPlexFilename: find over the files of the directory calls the
\* test on a file if there is one, and the test reads cachedLinkData.id, which
\* throws a TypeError when no cachedLinkData was passed.
GetExistingPlexFilename(files, cachedLinkData) ==
  LET found == {filename \in files : cachedLinkData.id = FilenameId(filename)}
  IN [threw |-> files # {} /\ ~cachedLinkData.defined,
      isPlexFile |-> found # {} /\ cachedLinkData.defined]

\* callbackImportPlexFile moves the downloaded file into the Plex download
\* directory under the name yt-dlp gave it.
CallbackImportPlexFile(inputArtist, inputTitle, id, ext) ==
  LET outputFilename == OutputFilename(inputArtist, inputTitle, id, ext)
  IN /\ plex' = [plex EXCEPT !.files = @ \cup {outputFilename},
                             !.written = @ \cup {[filename |-> outputFilename, id |-> id]}]
     /\ UNCHANGED outsidePlex

\* The callers of validateMessageWithPlexButton: showAllYouTubePlaylistSongs
\* passes no cachedLinkData.
ValidationCallers == {"onMessageCreate", "callbackImportPlexFile", "showAllYouTubePlaylistSongs"}

\* The button of the message when the caller calls: the searching button the
\* thread and the playlist replies are sent with, or the import button the
\* user pressed.
ButtonAtCall(c) ==
  IF c = "callbackImportPlexFile"
    THEN Button(IMPORT_INTO_PLEX_BUTTON, FALSE, "Import into Plex")
    ELSE Button(SEARCHING_PLEX_BUTTON, TRUE, "Searching in Plex")

\* validateMessageWithPlexButton is called: the channel is unarchived and the
\* referenced message fetched, the button of the components is set to the
\* searching state and the first edit is sent.
ValidateMessageWithPlexButton(i, c, id, o) ==
  /\ plex.v[i].pc = "idle"
  /\ \A j \in 1..NumValidations : j < i => plex.v[j].pc # "idle"
  /\ plex' = [plex EXCEPT !.v[i] =
       [NoValidation EXCEPT
          !.caller = c,
          !.cachedLinkData = IF c = "showAllYouTubePlaylistSongs" THEN NoLinkData
                             ELSE [defined |-> TRUE, id |-> id],
          !.button = ButtonAtCall(c),
          !.threw = (o = "throw"),
          !.pc = IF o = "ok" THEN "edit1" ELSE "done"]]
  /\ UNCHANGED outsidePlex

\* The first edit settles. When it is made the message shows the searching
\* button; the directory is then searched, and the button of the components
\* is set to the enabled delete or import state and the second edit is sent.
\* A rejected edit or a throwing search ends the call in its catch.
FirstEditSettles(i, o) ==
  /\ plex.v[i].pc = "edit1"
  /\ LET searching == Button(SEARCHING_PLEX_BUTTON, TRUE, "Searching in Plex")
         existing == GetExistingPlexFilename(plex.files, plex.v[i].cachedLinkData)
         customId == IF existing.isPlexFile THEN DELETE_FROM_PLEX_BUTTON
                     ELSE IMPORT_INTO_PLEX_BUTTON
         label == IF existing.isPlexFile THEN "Delete from Plex" ELSE "Import into Plex"
     IN plex' = [plex EXCEPT !.v[i] =
          IF o = "throw" THEN [@ EXCEPT !.threw = TRUE, !.pc = "done"]
          ELSE IF existing.threw
            THEN [@ EXCEPT !.button = searching, !.searched = TRUE, !.threw = TRUE,
                           !.pc = "done"]
          ELSE [@ EXCEPT !.button = searching, !.searched = TRUE,
                         !.next = Button(customId, FALSE, label), !.pc = "edit2"]]
  /\ UNCHANGED outsidePlex

\* The second edit settles: when it is made the message shows the enabled
\* button; when it is rejected the call ends in its catch.
SecondEditSettles(i, o) ==
  /\ plex.v[i].pc = "edit2"
  /\ plex' = [plex EXCEPT !.v[i] =
       IF o = "ok" THEN [@ EXCEPT !.button = plex.v[i].next, !.pc = "done"]
       ELSE [@ EXCEPT !.threw = TRUE, !.pc = "done"]]
  /\ UNCHANGED outsidePlex

NextPlex ==
  \/ \E inputArtist \in InputArtists, inputTitle \in InputTitles, id \in LinkIds,
        ext \in Extensions : CallbackImportPlexFile(inputArtist, inputTitle, id, ext)
  \/ \E i \in 1..NumValidations, o \in {"ok", "throw"} :
       \/ \E c \in ValidationCallers, id \in LinkIds : ValidateMessageWithPlexButton(i, c, id, o)
       \/ FirstEditSettles(i, o)
       \/ SecondEditSettles(i, o)

SpecPlex == Init /\ [][NextPlex]_vars

\* ------------------------------------------------------------------------
\* Vocabulary of the properties
\* ------------------------------------------------------------------------

\* The key string of an interaction's handler.
Key(r) == ToString(Operation(r))

\* A handler that marks its key: downloadLinkAndExecute or deleteLinkFromPlex.
Guarded(r) == r.fn \in {"downloadLinkAndExecute", "deleteLinkFromPlex"}

\* A handler that only consults the guard: one of the two modal openers.
Opener(r) == r.fn \in {"showMetadataModal", "showDeletionModal"}

\* The invocation has passed its isBusy check and has not ended.
PassedCheck(r) == Guarded(r) /\ r.pc \notin {"idle", "queued", "done"}

\* The invocation is between its setBusy(true) and its end.
Holding(r) == PassedCheck(r) /\ r.pc # "mark"

\* The step appends this call to the direct caller's calls.
Calls(method) == caller'.calls = Append(caller.calls, method)

\* The step leaves the direct caller with a newly constructed operation.
Constructs == caller'.constructed /\ caller'.calls = <<>>

\* Handler i ends in this step, having passed its isBusy check.
EndsHaving(i) ==
  /\ PassedCheck(inv[i])
  /\ inv'[i].pc = "done"

\* ------------------------------------------------------------------------
\* Properties
\* ------------------------------------------------------------------------

\* C1: whenever an invocation of downloadLinkAndExecute that has called
\* setBusy(true) ends (by returning after success, by an early return after a
\* failed validation, or with any awaited step having thrown, the error reply of
\* the catch block included), its key is not busy in the state it ends in.
DownloadReleasesKey ==
  [][\A i \in Slots :
       (inv[i].fn = "downloadLinkAndExecute" /\ Holding(inv[i]) /\ inv'[i].pc = "done")
         => ~IsBusy(Operation(inv[i]), BUSY_PLUGIN_INTERACTIONS')]_vars

\* A download ended with the error reply of its catch block rejected, and a later
\* trigger with the same key passed the check and holds the key.
DownloadReleasedAfterThrow ==
  \E i, j \in Slots :
    /\ i # j
    /\ inv[i].fn = "downloadLinkAndExecute" /\ inv[i].pc = "done"
    /\ ~inv[i].declined /\ inv[i].exc
    /\ inv[j].fn = "downloadLinkAndExecute" /\ Holding(inv[j])
    /\ Operation(inv[j]) = Operation(inv[i])

\* C2: whenever an invocation of deleteLinkFromPlex that has called
\* setBusy(true) ends, its key is not busy in the state it ends in.
DeleteReleasesKey ==
  [][\A i \in Slots :
       (inv[i].fn = "deleteLinkFromPlex" /\ Holding(inv[i]) /\ inv'[i].pc = "done")
         => ~IsBusy(Operation(inv[i]), BUSY_PLUGIN_INTERACTIONS')]_vars

\* C3: no two invocations that are between their setBusy(true) and their end
\* have the same key string.
SingleFlightPerKey ==
  \A i, j \in Slots :
    (i # j /\ Holding(inv[i]) /\ Holding(inv[j])) => Key(inv[i]) # Key(inv[j])

\* A second trigger of a guarded handler arrived while the first was awaiting its
\* guarded work, found the same key busy and ended without starting.
SecondTriggerDeclined ==
  \E i, j \in Slots :
    /\ i # j
    /\ Holding(inv[i])
    /\ Guarded(inv[j]) /\ inv[j].declined /\ inv[j].pc = "done"
    /\ Key(inv[j]) = Key(inv[i])

\* C4: a setBusy(true) on one triple leaves isBusy of every other triple as it
\* was.
KeysAreIndependent ==
  [][Calls("setBusy(true)") =>
       \A t \in Triples :
         t # caller.op =>
           (IsBusy(t, BUSY_PLUGIN_INTERACTIONS') <=> IsBusy(t, BUSY_PLUGIN_INTERACTIONS))]_vars

\* C5: no triple other than the one an operation was constructed from has the
\* operation's key string.
ToStringIsInjective ==
  caller.constructed =>
    \A t \in Triples : ToString(t) = ToString(caller.op) => t = caller.op

\* C6, as claimed: while one invocation is between its isBusy check and its
\* setBusy(true), the handler of a waiting trigger with the same key can run and
\* pass the check too.
CheckThenActRace ==
  \A i, j \in Slots :
    (/\ i # j
     /\ inv[i].pc = "mark"
     /\ Guarded(inv[j]) /\ inv[j].pc = "queued"
     /\ Key(inv[j]) = Key(inv[i]))
      => ENABLED (Start(j) /\ inv'[j].pc = "mark")

\* C6, amended: while one invocation is between its isBusy check and its
\* setBusy(true), no other invocation with the same key string has passed the
\* check.
NoCheckThenActRace ==
  \A i, j \in Slots :
    (i # j /\ inv[i].pc = "mark" /\ Key(inv[j]) = Key(inv[i])) => ~PassedCheck(inv[j])

\* Two triggers with one key are pending together: one has passed the check and
\* is about to call setBusy(true), the other waits for its handler to run.
TwoTriggersOneChecked ==
  \E i, j \in Slots :
    /\ i # j
    /\ inv[i].pc = "mark"
    /\ Guarded(inv[j]) /\ inv[j].pc = "queued"
    /\ Key(inv[j]) = Key(inv[i])

\* C7: a handler that found its key busy and has returned has called deferUpdate
\* on its interaction.
DeclinedIsAcknowledged ==
  \A i \in Slots :
    (inv[i].declined /\ inv[i].pc = "done") => inv[i].ack = "deferUpdate"

\* C8: a step of a handler that found its key busy leaves the registry and every
\* other invocation as they were, and the handler itself is only ever awaiting
\* its deferUpdate or ended, having shown no modal and deferred no reply.
DeclineDoesNoWork ==
  [][\A i \in Slots :
       (inv'[i].declined /\ inv'[i] # inv[i]) =>
         /\ BUSY_PLUGIN_INTERACTIONS' = BUSY_PLUGIN_INTERACTIONS
         /\ inv'[i].pc \in {"deferUpdate", "done"}
         /\ inv'[i].ack \in {"none", "deferUpdate"}
         /\ \A j \in Slots \ {i} : inv'[j] = inv[j]]_vars

\* A modal opener was declined and has returned while the invocation holding the
\* key is still in flight, its mark still in the registry.
OpenerDeclinedHolderMarked ==
  \E i, j \in Slots :
    /\ Holding(inv[i])
    /\ Opener(inv[j]) /\ inv[j].declined /\ inv[j].pc = "done"
    /\ Key(inv[j]) = Key(inv[i])
    /\ IsBusy(Operation(inv[i]), BUSY_PLUGIN_INTERACTIONS)

\* C9: after a setBusy(true) the operation is busy, and a setBusy(true) on an
\* operation that is already busy leaves the registry as it was.
SetBusyTrueIsIdempotent ==
  [][Calls("setBusy(true)") =>
       /\ IsBusy(caller.op, BUSY_PLUGIN_INTERACTIONS')
       /\ IsBusy(caller.op, BUSY_PLUGIN_INTERACTIONS) =>
            BUSY_PLUGIN_INTERACTIONS' = BUSY_PLUGIN_INTERACTIONS]_vars

\* setBusy(true) was called twice in a row on one operation, which is busy.
SetBusyTrueTwice ==
  /\ Len(caller.calls) >= 2
  /\ caller.calls[Len(caller.calls)] = "setBusy(true)"
  /\ caller.calls[Len(caller.calls) - 1] = "setBusy(true)"
  /\ IsBusy(caller.op, BUSY_PLUGIN_INTERACTIONS)

\* C10: after a setBusy(false) the operation is not busy, whatever calls came
\* before, and a setBusy(false) on an operation that is not busy leaves the
\* registry as it was.
SetBusyFalseIsIdempotent ==
  [][Calls("setBusy(false)") =>
       /\ ~IsBusy(caller.op, BUSY_PLUGIN_INTERACTIONS')
       /\ ~IsBusy(caller.op, BUSY_PLUGIN_INTERACTIONS) =>
            BUSY_PLUGIN_INTERACTIONS' = BUSY_PLUGIN_INTERACTIONS]_vars

\* One setBusy(false) after two setBusy(true) on one operation: it is not busy.
SetBusyFalseAfterTwoTrue ==
  /\ caller.calls = <<"setBusy(true)", "setBusy(true)", "setBusy(false)">>
  /\ ~IsBusy(caller.op, BUSY_PLUGIN_INTERACTIONS)

\* C11: the registry is empty at process start, and a key string becomes busy
\* only in a step that calls setBusy(true) on an operation whose key string it
\* is: until such a call isBusy is false for every operation of that key.
RegistryStartsEmpty ==
  /\ BUSY_PLUGIN_INTERACTIONS = {}
  /\ [][\A k \in BUSY_PLUGIN_INTERACTIONS' \ BUSY_PLUGIN_INTERACTIONS :
          Calls("setBusy(true)") /\ ToString(caller.op) = k]_vars

\* An operation was constructed and called, never with setBusy(true), over an
\* empty registry: isBusy is false for it.
NotBusyBeforeSetBusyTrue ==
  /\ caller.constructed
  /\ Len(caller.calls) >= 2
  /\ \A n \in 1..Len(caller.calls) : caller.calls[n] # "setBusy(true)"
  /\ BUSY_PLUGIN_INTERACTIONS = {}
  /\ ~IsBusy(caller.op, BUSY_PLUGIN_INTERACTIONS)

\* C12: a step that reads isBusy on an operation, and a step that constructs an
\* operation, leave the registry as it was.
QueryAndConstructionArePure ==
  [][(Calls("isBusy") \/ Constructs) =>
       BUSY_PLUGIN_INTERACTIONS' = BUSY_PLUGIN_INTERACTIONS]_vars

\* An operation was constructed while another key was busy and its isBusy was
\* read: the registry still holds that other key only.
QueriedOverForeignKey ==
  /\ caller.constructed
  /\ caller.calls = <<"isBusy">>
  /\ BUSY_PLUGIN_INTERACTIONS # {}
  /\ ~IsBusy(caller.op, BUSY_PLUGIN_INTERACTIONS)

\* C13: a busy key string leaves the registry only in the step in which a
\* handler of that key string that passed its isBusy check ends (its
\* setBusy(false)): no other step removes it.  While it is busy every handler
\* that starts for that key string is declined.
NoAutomaticRecovery ==
  [][/\ \A k \in BUSY_PLUGIN_INTERACTIONS \ BUSY_PLUGIN_INTERACTIONS' :
          \E i \in Slots : EndsHaving(i) /\ Key(inv[i]) = k
     /\ \A j \in Slots :
          (/\ inv[j].pc = "queued"
           /\ inv'[j].pc # "queued"
           /\ Key(inv[j]) \in BUSY_PLUGIN_INTERACTIONS) => inv'[j].declined]_vars

\* The holder of a key ended without releasing it (the finally block of
\* deleteLinkFromPlex threw), nobody holds the key any more, it is still busy,
\* and a later trigger of the same key string was declined.
OrphanedKeyDeclines ==
  \E i \in Slots, j \in Slots :
    /\ i < j
    /\ Guarded(inv[i]) /\ inv[i].pc = "done" /\ ~inv[i].declined
    /\ Key(inv[i]) \in BUSY_PLUGIN_INTERACTIONS
    /\ \A h \in Slots : ~(Holding(inv[h]) /\ Key(inv[h]) = Key(inv[i]))
    /\ Key(inv[j]) = Key(inv[i])
    /\ inv[j].declined

SettersAreChainableAndLocal ==
  /\ [][LET Own(setter) ==
              CASE setter = "setDate" -> "date"
                [] setter = "setEnabled" -> "isEnabled"
                [] setter = "setFunction" -> "func"
                [] setter = "setPattern" -> "pattern"
                [] setter = "setRunOrder" -> "runOrder"
                [] setter = "setTriggered" -> "isTriggered"
        IN cron'.passed.type \in SetterTypes(cron'.setter) =>
             /\ cron'.returned = "this"
             /\ cron'.job[Own(cron'.setter)] = cron'.passed
             /\ \A f \in DOMAIN cron.job \ {Own(cron'.setter)} :
                  cron'.job[f] = cron.job[f]]_vars
  /\ [](\A s1 \in Setters, s2 \in Setters, v1 \in JsValues, v2 \in JsValues :
          s1 # s2 /\ v1.type \in SetterTypes(s1) /\ v2.type \in SetterTypes(s2) =>
            Setter(s2, v2, Setter(s1, v1, cron.job).job).job
              = Setter(s1, v1, Setter(s2, v2, cron.job).job).job)

\* All six setters have been called with accepted values: no field has its
\* initial value, and the last call, setTriggered(true), returned the instance.
AllSixFieldsSet ==
  /\ \A f \in DOMAIN cron.job : cron.job[f] # NewCronJobScheduler[f]
  /\ cron.setter = "setTriggered"
  /\ cron.passed = JsValue("boolean", "true")
  /\ cron.returned = "this"

\* C16: yt-dlp is invoked for the download only if the start and the end input
\* both match the timestamp pattern, the end input is not after the video's end
\* time and the start input is strictly before the end input (each timestamp
\* taken at the time of day it denotes, every field counted); in every rejected
\* case the user gets an error reply, no download and no callback is run and no
\* file is written.
ValidationGatesDownload ==
  LET Seconds(timestamp) == GetTimestampFromLastField(timestamp).n
      valid == /\ MatchesTimestampPattern(dl.start)
               /\ MatchesTimestampPattern(dl.end)
               /\ Seconds(dl.end) <= Seconds(dl.endTime)
               /\ Seconds(dl.start) < Seconds(dl.end)
  IN /\ dl.downloaded => valid
     /\ (dl.pc \in {"youtubedl", "callback", "done"} /\ ~valid) =>
          /\ dl.pc = "done"
          /\ dl.reply \notin {"none", "callback"}
          /\ ~dl.downloaded /\ ~dl.called /\ dl.files = {}

\* C17: getTimestampAsTotalSeconds returns the total number of seconds of every
\* timestamp the validation pattern accepts, the ones with the leading group
\* included: every field contributes, so two accepted timestamps that differ
\* only in their last field get different totals.
TotalSecondsCountsEveryField ==
  /\ \A t \in {dl.start, dl.end} :
       MatchesTimestampPattern(t) =>
         GetTimestampAsTotalSeconds(t) = GetTimestampFromLastField(t)
  /\ (/\ MatchesTimestampPattern(dl.start) /\ MatchesTimestampPattern(dl.end)
      /\ Len(dl.start) = Len(dl.end)
      /\ \A k \in 1..(Len(dl.start) - 1) : dl.start[k] = dl.end[k]
      /\ dl.start[Len(dl.start)] # dl.end[Len(dl.end)]) =>
       GetTimestampAsTotalSeconds(dl.start) # GetTimestampAsTotalSeconds(dl.end)

\* C18: the name a finished call of getThreadChannelName yields is at most 100
\* characters long: it is the composed name when that has at most 100
\* characters, and its first 97 characters followed by "..." otherwise.
ThreadNameAtMostLimit ==
  (thread.pc = "done" /\ thread.returned.type = "Promise"
     /\ thread.returned.val.state = "fulfilled") =>
    LET name == thread.returned.val.value.val
    IN /\ name.length <= NameLimit
       /\ name.sliced => name.length = SliceEnd + 3

\* C19: a finished call of getThreadChannelName has not rejected, and when
\* fetching the playlist title threw it has yielded the fallback name.
ThreadNameNeverFails ==
  thread.pc = "done" =>
    /\ ~(thread.returned.type = "Promise" /\ thread.returned.val.state = "rejected")
    /\ thread.threw =>
         \/ thread.returned.type = "string" /\ thread.returned.val.text = "Error fetching title"
         \/ /\ thread.returned.type = "Promise"
            /\ thread.returned.val.state = "fulfilled"
            /\ thread.returned.val.value.val.text = "Error fetching title"

\* C20 as stated: once getOrInitializeLinkData has returned a LinkData for a
\* link, every later call with a link of the same parameter-stripped form
\* returns that same object, without calling oEmbed or yt-dlp.
CacheHitReturnsSameObject ==
  \A i \in 1..NumLookups :
    (lookups[i].pc # "idle" /\ lookups[i].known # {}) =>
      /\ lookups[i].pc = "done"
      /\ lookups[i].known = {lookups[i].returned}
      /\ lookups[i].outbound = {}

\* C20: once getOrInitializeLinkData has returned a LinkData for a link, every
\* later call with a link of the same parameter-stripped form returns at once,
\* without calling oEmbed or yt-dlp, a LinkData object that an earlier call
\* returned for that stripped link.
CacheHitMakesNoRequest ==
  \A i \in 1..NumLookups :
    (lookups[i].pc # "idle" /\ lookups[i].known # {}) =>
      /\ lookups[i].pc = "done"
      /\ lookups[i].returned \in lookups[i].known
      /\ lookups[i].outbound = {}

\* A call with a link that differs in its parameters from the link of the call
\* that created the object has returned that object, with no request made.
CacheHitAcrossParameters ==
  \E i \in 1..NumLookups, j \in 1..NumLookups :
    /\ lookups[i].pc = "done" /\ lookups[j].pc = "done"
    /\ lookups[j].returned = j
    /\ lookups[i].link # lookups[j].link
    /\ lookups[i].link[1] = lookups[j].link[1]
    /\ lookups[i].known = {j}
    /\ lookups[i].returned = j
    /\ lookups[i].outbound = {}

\* C21: every entry of CACHED_LINK_DATA is a LinkData whose authorName, title,
\* endTime and id are non-empty; and a call that asked oEmbed or yt-dlp and got
\* a failure or an empty value has returned undefined and its object is in no
\* entry.
OnlySupportedLinksCached ==
  LET Empty(value) == value \in {"", "undefined"}
      Unsupported(r) == Empty(r.authorName) \/ Empty(r.title) \/ Empty(r.endTime) \/ Empty(r.id)
  IN /\ \A l \in DOMAIN CACHED_LINK_DATA :
          CACHED_LINK_DATA[l] # 0 => ~Unsupported(lookups[CACHED_LINK_DATA[l]])
     /\ \A i \in 1..NumLookups :
          (lookups[i].pc = "done" /\ lookups[i].outbound # {} /\ Unsupported(lookups[i])) =>
            /\ lookups[i].returned = 0
            /\ \A l \in DOMAIN CACHED_LINK_DATA : CACHED_LINK_DATA[l] # i

\* One link was cached with its four values, a call for another link got a
\* title that is empty once cleaned and one a rejection from yt-dlp: both
\* returned undefined and the other link has no entry.
SupportedCachedUnsupportedNot ==
  \E i \in 1..NumLookups, j \in 1..NumLookups, k \in 1..NumLookups :
    /\ lookups[i].pc = "done" /\ lookups[i].returned = i
    /\ CACHED_LINK_DATA[lookups[i].link[1]] = i
    /\ lookups[j].pc = "done" /\ lookups[j].title = "" /\ lookups[j].returned = 0
    /\ lookups[k].pc = "done" /\ lookups[k].id = "undefined"
    /\ lookups[k].outbound = {"oembed", "youtubedl"} /\ lookups[k].returned = 0
    /\ lookups[j].link[1] # lookups[i].link[1]
    /\ CACHED_LINK_DATA[lookups[j].link[1]] = 0

\* C22: the Plex button reflects the library. When the directory is searched,
\* the button the call goes on to set is the enabled delete button ("Delete
\* from Plex") exactly when the import flow wrote a file for the link's id into
\* the directory, and the enabled import button ("Import into Plex")
\* otherwise; a call that completed without an error shows that button; and
\* between the first edit and the second the message shows the disabled
\* "Searching in Plex" button.
PlexButtonReflectsLibrary ==
  /\ [](\A i \in 1..NumValidations :
          /\ (plex.v[i].pc = "edit2") =>
                plex.v[i].button = Button(SEARCHING_PLEX_BUTTON, TRUE, "Searching in Plex")
          /\ (plex.v[i].pc = "done" /\ ~plex.v[i].threw) =>
                /\ plex.v[i].button = plex.v[i].next
                /\ ~plex.v[i].button.disabled)
  /\ [][\A i \in 1..NumValidations :
          (plex.v[i].pc = "edit1" /\ plex'.v[i].pc = "edit2") =>
            plex'.v[i].next =
              IF \E w \in plex.written :
                   plex.v[i].cachedLinkData.defined /\ w.id = plex.v[i].cachedLinkData.id
                THEN Button(DELETE_FROM_PLEX_BUTTON, FALSE, "Delete from Plex")
                ELSE Button(IMPORT_INTO_PLEX_BUTTON, FALSE, "Import into Plex")]_vars

\* C23: the searching state is transient. A call of
\* validateMessageWithPlexButton whose first edit put the button into the
\* disabled searching state has, when it has returned, set that button to an
\* enabled import or delete button, whoever the caller is and whether or not
\* the search of the directory or an edit failed.
SearchingIsTransient ==
  \A i \in 1..NumValidations :
    (plex.v[i].pc = "done" /\ plex.v[i].searched) =>
      /\ plex.v[i].button.customId \in {IMPORT_INTO_PLEX_BUTTON, DELETE_FROM_PLEX_BUTTON}
      /\ ~plex.v[i].button.disabled

\* C24: id round trip through the filename. A file the import flow wrote for
\* an id is found by getExistingPlexFilename for a LinkData with that id and
\* for no LinkData with another id.
IdRoundTripThroughFilename ==
  \A w \in plex.written, id \in LinkIds :
    GetExistingPlexFilename({w.filename}, [defined |-> TRUE, id |-> id]).isPlexFile
      <=> (id = w.id)

PendingMarkReleasedOnEveryExit ==
  \A i \in Slots :
    (legacy[i].ran = "uploadUrlToThread" /\ legacy[i].pc = "done"
       /\ DOWNLOAD_BUTTON \o legacy[i].userId \in pendingInteractions) =>
      \E j \in Slots \ {i} :
        /\ legacy[j].ran = "uploadUrlToThread"
        /\ legacy[j].userId = legacy[i].userId
        /\ legacy[j].pc \in {"fetchStarterMessage2", "download"}

====
